---- MODULE Spec2Model ----
(***************************************************************************)
(* The conversation handler of the storefront chat assistant:              *)
(* conversation_manager.handle_conversation and the Shopify gateway        *)
(* functions of knowledge_base it awaits.                                  *)
(*                                                                         *)
(* A Python string is a sequence of atoms.  An atom is one character, or   *)
(* one fixed phrase of a canned text that holds none of the characters the *)
(* code inspects.  Substring tests, lower(), strip(), the digit-run regex  *)
(* and the tag-stripping regex are computed on these sequences.            *)
(***************************************************************************)
EXTENDS Integers, Sequences, FiniteSets, TLC

VARIABLES
    SHOPIFY_STORE_URL,        \* knowledge_base.SHOPIFY_STORE_URL (None when unset)
    SHOPIFY_ADMIN_API_TOKEN,  \* knowledge_base.SHOPIFY_ADMIN_API_TOKEN (None when unset)
    pc,                       \* "idle", "returned" or "raised": how the last call ended
    query,                    \* the query argument of the call
    store_name,               \* the store_name argument of the call
    response,                 \* the dict handle_conversation returned
    branch,                   \* the intent branch whose return statement ran
    calls,                    \* the external operations awaited, in order
    world,                    \* what the collaborators answered during the call
    prev                      \* the previous call: query, store name, world, outcome

vars == <<SHOPIFY_STORE_URL, SHOPIFY_ADMIN_API_TOKEN, pc, query, store_name,
          response, branch, calls, world, prev>>

-----------------------------------------------------------------------------
(* Bounds of the model.                                                    *)

MaxWords == 2       \* phrases per query
MaxOrders == 1      \* orders in a gateway answer
MaxPages == 1       \* pages in a gateway answer
MaxProducts == 2    \* products in a gateway answer

-----------------------------------------------------------------------------
(* Python values.                                                          *)

\* None: one atom that is no character and no phrase of any text.
None == <<"NoneType">>

\* bool(x) for x a string or None.
Truthy(x) == x # None /\ x # <<>>

\* str(x) as an f-string formats it.
Str(x) == IF x = None THEN <<"N", "o", "n", "e">> ELSE x

\* needle in hay
Contains(hay, needle) ==
    \E i \in 0..(Len(hay) - Len(needle)) :
        SubSeq(hay, i + 1, i + Len(needle)) = needle

UpperCase == <<"A", "B", "C", "D", "E", "F", "G", "H", "I", "J", "K", "L", "M",
               "N", "O", "P", "Q", "R", "S", "T", "U", "V", "W", "X", "Y", "Z",
               "Å", "Ä", "Ö">>
LowerCase == <<"a", "b", "c", "d", "e", "f", "g", "h", "i", "j", "k", "l", "m",
               "n", "o", "p", "q", "r", "s", "t", "u", "v", "w", "x", "y", "z",
               "å", "ä", "ö">>

LowerChar(c) ==
    IF \E i \in 1..Len(UpperCase) : UpperCase[i] = c
    THEN LowerCase[CHOOSE i \in 1..Len(UpperCase) : UpperCase[i] = c]
    ELSE c

\* s.lower()
Lower(s) == [i \in 1..Len(s) |-> LowerChar(s[i])]

Whitespace == {" ", "\t", "\n"}

\* s.strip()
Strip(s) ==
    LET keep == {i \in 1..Len(s) : s[i] \notin Whitespace}
    IN  IF keep = {} THEN <<>>
        ELSE SubSeq(s, CHOOSE i \in keep : \A j \in keep : i <= j,
                       CHOOSE i \in keep : \A j \in keep : i >= j)

Digits == {"0", "1", "2", "3", "4", "5", "6", "7", "8", "9"}

\* The least number of digits of an order number: the 4 of r'(\d{4,})'.
MinOrderDigits == 4

\* A variant of SearchOrderNumber whose group also takes a '#' before the digits.
SearchOrderNumber_WithHash(s) ==
    LET starts == {i \in 1..Len(s) :
                     /\ i + MinOrderDigits - 1 <= Len(s)
                     /\ \A k \in i..(i + MinOrderDigits - 1) : s[k] \in Digits}
    IN  IF starts = {} THEN None
        ELSE LET b == CHOOSE i \in starts : \A j \in starts : i <= j
                 ends == {e \in b..Len(s) : \A k \in b..e : s[k] \in Digits}
                 e == CHOOSE x \in ends : \A y \in ends : x >= y
             IN  SubSeq(s, IF b > 1 /\ s[b - 1] = "#" THEN b - 1 ELSE b, e)

\* re.search(r'(\d{4,})', s): group(1) of the leftmost match, greedy, or None.
SearchOrderNumber(s) ==
    LET starts == {i \in 1..Len(s) :
                     /\ i + MinOrderDigits - 1 <= Len(s)
                     /\ \A k \in i..(i + MinOrderDigits - 1) : s[k] \in Digits}
    IN  IF starts = {} THEN None
        ELSE LET b == CHOOSE i \in starts : \A j \in starts : i <= j
                 ends == {e \in b..Len(s) : \A k \in b..e : s[k] \in Digits}
                 e == CHOOSE x \in ends : \A y \in ends : x >= y
             IN  SubSeq(s, b, e)

\* s.replace(old, new) for a one-character old.
Replace(s, old, new) == [i \in 1..Len(s) |-> IF s[i] = old THEN new ELSE s[i]]

\* The end of the match of '<[^<]+?>' that starts at i, or 0 when none does:
\* '<', then the fewest (at least one) characters other than '<', then '>'.
TagEnd(s, i) ==
    LET ends == {j \in (i + 2)..Len(s) :
                   /\ s[j] = ">"
                   /\ \A k \in (i + 1)..(j - 1) : s[k] # "<"}
    IN  IF i > Len(s) \/ s[i] # "<" \/ ends = {} THEN 0
        ELSE CHOOSE j \in ends : \A k \in ends : j <= k

RECURSIVE SubTags(_, _)
\* re.sub('<[^<]+?>', '', s) from position i on: leftmost matches, removed.
SubTags(s, i) ==
    IF i > Len(s) THEN <<>>
    ELSE IF TagEnd(s, i) # 0 THEN SubTags(s, TagEnd(s, i) + 1)
    ELSE <<s[i]>> \o SubTags(s, i + 1)

clean_html(raw_html) == Strip(SubTags(raw_html, 1))

RECURSIVE Split(_, _)
\* s.split(sep) for a one-character sep.
Split(s, sep) ==
    LET at == {i \in 1..Len(s) : s[i] = sep}
    IN  IF at = {} THEN <<s>>
        ELSE LET i == CHOOSE x \in at : \A y \in at : x <= y
             IN  <<SubSeq(s, 1, i - 1)>> \o Split(SubSeq(s, i + 1, Len(s)), sep)

RECURSIVE Join(_, _)
\* sep.join(parts)
Join(parts, sep) ==
    IF parts = <<>> THEN <<>>
    ELSE IF Len(parts) = 1 THEN parts[1]
    ELSE parts[1] \o sep \o Join(Tail(parts), sep)

\* xs[:n]
Take(xs, n) == SubSeq(xs, 1, IF Len(xs) < n THEN Len(xs) ELSE n)

\* All sequences over S of length at most n.
SeqUpTo(S, n) == UNION {[1..k -> S] : k \in 0..n}

-----------------------------------------------------------------------------
(* Keyword tables for intent routing.                                      *)

GREETING_KEYWORDS ==
    { <<"h", "e", "j">>,
      <<"h", "i">>,
      <<"h", "e", "l", "l", "o">>,
      <<"h", "e", "y">>,
      <<"t", "j", "a">>,
      <<"g", "o", "o", "d", " ", "m", "o", "r", "n", "i", "n", "g">>,
      <<"g", "o", "o", "d", " ", "e", "v", "e", "n", "i", "n", "g">> }

ORDER_TRACKING_KEYWORDS ==
    { <<"t", "r", "a", "c", "k">>,
      <<"o", "r", "d", "e", "r">>,
      <<"s", "p", "å", "r", "a">>,
      <<"b", "e", "s", "t", "ä", "l", "l", "n", "i", "n", "g">>,
      <<"w", "h", "e", "r", "e", " ", "i", "s", " ", "m", "y", " ", "o", "r", "d", "e", "r">>,
      <<"s", "t", "a", "t", "u", "s">> }

POLICY_KEYWORDS ==
    { <<"p", "o", "l", "i", "c", "y">>,
      <<"r", "e", "t", "u", "r", "n">>,
      <<"r", "e", "t", "u", "r">>,
      <<"s", "h", "i", "p", "p", "i", "n", "g">>,
      <<"f", "r", "a", "k", "t">>,
      <<"t", "e", "r", "m", "s">>,
      <<"r", "u", "l", "e", "s">>,
      <<"v", "i", "l", "l", "k", "o", "r">> }

RECOMMENDATION_KEYWORDS ==
    { <<"r", "e", "c", "o", "m", "m", "e", "n", "d">>,
      <<"r", "e", "k", "o", "m", "m", "e", "n", "d", "e", "r", "a">>,
      <<"s", "u", "g", "g", "e", "s", "t">>,
      <<"p", "r", "o", "d", "u", "c", "t">>,
      <<"p", "r", "o", "d", "u", "k", "t">>,
      <<"l", "o", "o", "k", "i", "n", "g", " ", "f", "o", "r">> }

\* any(keyword in query_lower for keyword in keywords)
AnyKeyword(query_lower, keywords) == \E keyword \in keywords : Contains(query_lower, keyword)

-----------------------------------------------------------------------------
(* Configuration read from the environment when knowledge_base is loaded.  *)

StoreDomain == <<"s", "h", "o", "p", ".", "e", "x", "a", "m", "p", "l", "e">>
AdminToken == <<"shpat_token">>

-----------------------------------------------------------------------------
(* What the collaborators can answer.                                      *)

\* requests.get(...) followed by raise_for_status() and .json(): either a
\* requests.RequestException, or the list under the key the caller reads.
RequestException == [asked |-> TRUE, ok |-> FALSE, json |-> <<>>]
HttpOk(list) == [asked |-> TRUE, ok |-> TRUE, json |-> list]
\* The function returned or raised before any request was sent.
NotAsked == [asked |-> FALSE, ok |-> FALSE, json |-> <<>>]

TrackingUrl == <<"h", "t", "t", "p", "s", ":", "/", "/", "t", ".", "e", "x", "/", "9">>

\* An order of orders.json: its fulfillment_status (None when null) and the
\* tracking URL of its fulfillment, present only on a fulfilled order.
OrderSet ==
    { [fulfillment_status |-> None, tracking_url |-> None],
      [fulfillment_status |-> <<"fulfilled">>, tracking_url |-> None],
      [fulfillment_status |-> <<"fulfilled">>, tracking_url |-> TrackingUrl],
      [fulfillment_status |-> <<"partial">>, tracking_url |-> None],
      [fulfillment_status |-> <<"restocked">>, tracking_url |-> None] }

OrdersAnswers == {RequestException} \cup {HttpOk(l) : l \in SeqUpTo(OrderSet, MaxOrders)}

BodyText == <<"<", "p", ">", "Returns within 30 days", ".", " ", "<", "b", ">", "Free",
              "<", "/", "b", ">", ".", " ", "Easy", ".", "<", "/", "p", ">">>
BodyMarkupOnly == <<"<", "b", "r", ">">>

\* A page of pages.json: its title and its body_html.
PageSet ==
    [title : { <<"R", "e", "t", "u", "r", "n", "-", "P", "o", "l", "i", "c", "y">>,
               <<"O", "u", "r", " ", "s", "h", "i", "p", "p", "i", "n", "g", "-",
                 "p", "o", "l", "i", "c", "y">> },
     body_html : {<<>>, BodyText, BodyMarkupOnly}]

PagesAnswers == {RequestException} \cup {HttpOk(l) : l \in SeqUpTo(PageSet, MaxPages)}

\* A product of products.json: title and handle, each None when the key is absent.
ProductSet ==
    { [title |-> <<"L", "a", "m", "p">>, handle |-> <<"l", "a", "m", "p">>],
      [title |-> <<"V", "a", "s", "e">>, handle |-> <<"v", "a", "s", "e">>],
      [title |-> None, handle |-> <<"m", "u", "g">>] }

ProductsAnswers == {RequestException} \cup {HttpOk(l) : l \in SeqUpTo(ProductSet, MaxProducts)}

ImageUrl == <<"h", "t", "t", "p", "s", ":", "/", "/", "c", "d", "n", "/", "i", ".", "p", "n", "g">>

\* The product page fetched by the image scrape: a RequestException, a page
\* without an og:image meta tag, or a page with one.
ScrapeAnswers ==
    { [asked |-> TRUE, ok |-> FALSE, og_image |-> None],
      [asked |-> TRUE, ok |-> TRUE, og_image |-> None],
      [asked |-> TRUE, ok |-> TRUE, og_image |-> ImageUrl] }
ScrapeNotAsked == [asked |-> FALSE, ok |-> FALSE, og_image |-> None]

\* The language-model service behind the two AI helpers answers or fails.
OracleAnswers == {"ok", "fail"}
OracleNotAsked == "not asked"

-----------------------------------------------------------------------------
(* A function either returns a value or raises.                            *)

Return(v) == [raised |-> FALSE, value |-> v]
Raise == [raised |-> TRUE, value |-> None]

-----------------------------------------------------------------------------
(* knowledge_base                                                          *)

\* _get_admin_api_headers raises ValueError when the token is not set.
get_admin_api_headers_raises == ~Truthy(SHOPIFY_ADMIN_API_TOKEN)

\* Does the function get as far as requests.get?
SendsRequest == Truthy(SHOPIFY_STORE_URL) /\ ~get_admin_api_headers_raises

RECURSIVE FirstPageWith(_, _)
\* The for loop over pages: body_html of the first page whose lowercased
\* title holds topic, or None.
FirstPageWith(pages, topic) ==
    IF pages = <<>> THEN None
    ELSE IF Contains(Lower(Head(pages).title), topic) THEN Head(pages).body_html
    ELSE FirstPageWith(Tail(pages), topic)

get_shopify_page_by_handle(topic, http) ==
    IF ~Truthy(SHOPIFY_STORE_URL) THEN Return(None)
    ELSE IF get_admin_api_headers_raises THEN Return(None)   \* except Exception
    ELSE IF ~http.ok THEN Return(None)                       \* except RequestException
    ELSE Return(FirstPageWith(http.json, topic))

track_order_in_shopify(order_number, http) ==
    IF ~Truthy(SHOPIFY_STORE_URL)
    THEN Return(<<"I'm sorry, my connection to the store is currently unavailable.">>)
    ELSE IF get_admin_api_headers_raises THEN Raise   \* ValueError is no RequestException
    ELSE IF ~http.ok
    THEN Return(<<"I'm having trouble accessing order information right now. Please try again in a moment.">>)
    ELSE IF http.json = <<>>
    THEN Return(<<"I couldn't find any order with the number #">> \o order_number
                \o <<". Please double-check the number.">>)
    ELSE LET fulfillment_status == http.json[1].fulfillment_status
         IN  IF fulfillment_status = None
             THEN Return(<<"Order #">> \o order_number
                         \o <<" has been placed, but is not yet fulfilled.">>)
             ELSE IF fulfillment_status = <<"fulfilled">>
             THEN Return(<<"Great news! Order #">> \o order_number
                         \o <<" has been fulfilled and is on its way.">>)
             ELSE IF fulfillment_status = <<"partial">>
             THEN Return(<<"Good news! Part of your order #">> \o order_number
                         \o <<" has been shipped.">>)
             ELSE Return(<<"The current status for order #">> \o order_number
                         \o <<" is: ">> \o fulfillment_status \o <<".">>)

\* The dict appended for one product of products.json.
RecommendationEntry(prod) ==
    [title |-> prod.title,
     product_url |-> <<"h", "t", "t", "p", "s", ":", "/", "/">> \o SHOPIFY_STORE_URL
                     \o <<"/", "p", "r", "o", "d", "u", "c", "t", "s", "/">>
                     \o Str(prod.handle)]

fetch_shopify_recommendations(http) ==
    IF ~Truthy(SHOPIFY_STORE_URL) THEN Return(<<>>)
    ELSE IF get_admin_api_headers_raises THEN Raise   \* ValueError is no RequestException
    ELSE IF ~http.ok THEN Return(<<>>)
    ELSE Return([i \in 1..Len(http.json) |-> RecommendationEntry(http.json[i])])

-----------------------------------------------------------------------------
(* conversation_manager: helpers                                           *)

get_conversational_response(q, oracle) ==
    IF oracle # "ok" THEN Raise
    ELSE IF Contains(q, <<"h", "o", "w", " ", "a", "r", "e", " ", "y", "o", "u">>)
    THEN Return(<<"I'm doing great, thanks for asking! How can I help you find something amazing today?">>)
    ELSE Return(<<"That's an interesting question! While I ponder that, is there anything I can help you find in the store?">>)

\* A variant of answer_question_from_text that returns the summary alone,
\* without the "According to our Policy" frame.
answer_question_from_text_Bare(document_text, question, oracle) ==
    IF oracle # "ok" THEN Raise
    ELSE Return(Join(Take(Split(document_text, "."), 2), <<".", " ">>))

answer_question_from_text(document_text, question, oracle) ==
    IF oracle # "ok" THEN Raise
    ELSE LET summary == Join(Take(Split(document_text, "."), 2), <<".", " ">>)
         IN  Return(<<"According to our Policy, ">> \o summary \o <<".">>)

scrape_product_image_url(product_url, page) ==
    IF page.ok /\ page.og_image # None THEN page.og_image ELSE None

-----------------------------------------------------------------------------
(* The inputs of handle_conversation.                                      *)

\* The phrases queries are made of.
Vocabulary ==
    { <<"H", "e", "l", "l", "o">>,
      <<"s", "h", "i", "p", "p", "i", "n", "g">>,
      <<"f", "r", "a", "k", "t">>,
      <<"p", "o", "l", "i", "c", "y">>,
      <<"o", "r", "d", "e", "r", " ", "1", "2", "3">>,
      <<"1", "0", "2", "3", "4">>,
      <<"#", "4", "8", "2", "1", "3", " ", "1", "0", "2", "3", "4">>,
      <<"r", "e", "c", "o", "m", "m", "e", "n", "d">>,
      <<"h", "u", "m", "a", "n">>,
      <<"h", "o", "w", " ", "a", "r", "e", " ", "y", "o", "u">> }

\* Every query of at most MaxWords phrases, separated by blanks.
Queries == {Join(ws, <<" ">>) : ws \in SeqUpTo(Vocabulary, MaxWords)}

StoreNames == {<<"V's Store">>, <<"Elgiganten">>}

-----------------------------------------------------------------------------
(* conversation_manager.handle_conversation                                *)

QueryLower(q) == Strip(Lower(q))

\* The chain of if statements over the keyword tables: the first table with
\* a keyword in query_lower.
Intent(query_lower) ==
    IF AnyKeyword(query_lower, GREETING_KEYWORDS) THEN "greeting"
    ELSE IF AnyKeyword(query_lower, ORDER_TRACKING_KEYWORDS) THEN "order_tracking"
    ELSE IF AnyKeyword(query_lower, POLICY_KEYWORDS) THEN "policy"
    ELSE IF AnyKeyword(query_lower, RECOMMENDATION_KEYWORDS) THEN "recommendation"
    ELSE "fallback"

GreetingText ==
    <<"Hello! I'm V, your personal shopping assistant. What can I help you find today?">>

OrderNumberPrompt == <<"I can certainly help with that! What is your order number?">>

\* The policy page to fetch.
PolicyHandle(query_lower) ==
    IF \/ Contains(query_lower, <<"s", "h", "i", "p", "p", "i", "n", "g">>)
       \/ Contains(query_lower, <<"f", "r", "a", "k", "t">>)
    THEN <<"s", "h", "i", "p", "p", "i", "n", "g", "-", "p", "o", "l", "i", "c", "y">>
    ELSE <<"r", "e", "t", "u", "r", "n", "-", "p", "o", "l", "i", "c", "y">>

\* A variant of PolicyNotFoundText that leaves the topic out.
PolicyNotFoundText_NoTopic(handle) ==
    <<"I couldn't find the specific details for that policy.">>

PolicyNotFoundText(handle) ==
    <<"I couldn't find the specific details for our ">> \o Replace(handle, "-", " ") \o <<".">>

\* A variant of PickProduct: recommendations[-1].
PickProduct_Last(recommendations) == recommendations[Len(recommendations)]

\* A variant of PickProduct that rotates: the first product on the first call,
\* the last one on the calls after it.
PickProduct_Rotating(recommendations) ==
    IF prev.pc = "idle" THEN recommendations[1] ELSE recommendations[Len(recommendations)]

\* recommendations[0]
PickProduct(recommendations) == recommendations[1]

RecommendationText(product_title) ==
    <<"I have a great suggestion for you! The ">> \o Str(product_title)
    \o <<" is very popular. It might be just what you're looking for.">>

ProductCard(product, image_url) ==
    [title |-> product.title,
     product_url |-> product.product_url,
     image_url |-> IF Truthy(image_url) THEN image_url ELSE <<>>]

FallbackErrorText ==
    <<"I'm sorry, I don't have information on that right now. Could I help with a product recommendation or a policy question instead?">>

NoResponse == [text |-> <<>>, products |-> <<>>]
NoWorld == [gateway |-> NotAsked, scrape |-> ScrapeNotAsked, oracle |-> OracleNotAsked]
NoCall == [pc |-> "idle", query |-> <<>>, store_name |-> <<>>, world |-> NoWorld,
           response |-> NoResponse]

Call(op, args) == [op |-> op, args |-> args]

\* The answers a gateway function can get: none when it sends no request.
Answers(all) == IF SendsRequest THEN all ELSE {NotAsked}

\* handle_conversation returns resp from the branch br.
Returned(br, resp, cs, w) ==
    /\ pc' = "returned"
    /\ response' = resp
    /\ branch' = br
    /\ calls' = cs
    /\ world' = w
    /\ UNCHANGED <<SHOPIFY_STORE_URL, SHOPIFY_ADMIN_API_TOKEN, query, store_name, prev>>

\* An exception leaves handle_conversation.
Raised(cs, w) ==
    /\ pc' = "raised"
    /\ response' = NoResponse
    /\ branch' = "none"
    /\ calls' = cs
    /\ world' = w
    /\ UNCHANGED <<SHOPIFY_STORE_URL, SHOPIFY_ADMIN_API_TOKEN, query, store_name, prev>>

\* The host calls handle_conversation(q, s).
Receive(q, s) ==
    /\ pc = "idle"
    /\ pc' = "called"
    /\ query' = q
    /\ store_name' = s
    /\ UNCHANGED <<SHOPIFY_STORE_URL, SHOPIFY_ADMIN_API_TOKEN, response, branch, calls,
                   world, prev>>

query_lower == QueryLower(query)

\* A variant of GeneralConversation that asks the oracle a second time.
GeneralConversation_Retry(cs, w, oracle) ==
    LET ai_response == get_conversational_response(query, oracle)
        cs2 == cs \o <<Call("get_conversational_response", <<query>>),
                       Call("get_conversational_response", <<query>>)>>
        w2 == [w EXCEPT !.oracle = oracle]
    IN  IF ai_response.raised
        THEN Returned("fallback", [text |-> FallbackErrorText, products |-> <<>>], cs2, w2)
        ELSE Returned("fallback", [text |-> ai_response.value, products |-> <<>>], cs2, w2)

\* 5. Default: fallback to the general conversation AI, inside try/except.
GeneralConversation(cs, w, oracle) ==
    LET ai_response == get_conversational_response(query, oracle)
        cs2 == Append(cs, Call("get_conversational_response", <<query>>))
        w2 == [w EXCEPT !.oracle = oracle]
    IN  IF ai_response.raised
        THEN Returned("fallback", [text |-> FallbackErrorText, products |-> <<>>], cs2, w2)
        ELSE Returned("fallback", [text |-> ai_response.value, products |-> <<>>], cs2, w2)

\* 1. Intent: greeting.
Greeting ==
    /\ pc = "called"
    /\ Intent(query_lower) = "greeting"
    /\ Returned("greeting", [text |-> GreetingText, products |-> <<>>], <<>>, NoWorld)

\* 2. Intent: order tracking.
OrderTracking ==
    /\ pc = "called"
    /\ Intent(query_lower) = "order_tracking"
    /\ LET order_id == SearchOrderNumber(query)
       IN  IF order_id # None
           THEN \E http \in Answers(OrdersAnswers) :
                  LET status == track_order_in_shopify(order_id, http)
                      cs == <<Call("track_order_in_shopify", <<order_id>>)>>
                      w == [NoWorld EXCEPT !.gateway = http]
                  IN  IF status.raised
                      THEN Raised(cs, w)
                      ELSE Returned("order_tracking",
                                    [text |-> status.value, products |-> <<>>], cs, w)
           ELSE Returned("order_tracking",
                         [text |-> OrderNumberPrompt, products |-> <<>>], <<>>, NoWorld)

\* 3. Intent: policy question.
Policy ==
    /\ pc = "called"
    /\ Intent(query_lower) = "policy"
    /\ \E http \in Answers(PagesAnswers) :
         LET handle == PolicyHandle(query_lower)
             page_content_html == get_shopify_page_by_handle(handle, http).value
             cs == <<Call("get_shopify_page_by_handle", <<handle>>)>>
             w == [NoWorld EXCEPT !.gateway = http]
         IN  IF Truthy(page_content_html)
             THEN \E oracle \in OracleAnswers :
                    LET clean_text == clean_html(page_content_html)
                        answer == answer_question_from_text(clean_text, query, oracle)
                        cs2 == Append(cs, Call("answer_question_from_text", <<clean_text, query>>))
                        w2 == [w EXCEPT !.oracle = oracle]
                    IN  IF answer.raised
                        THEN Raised(cs2, w2)
                        ELSE Returned("policy", [text |-> answer.value, products |-> <<>>],
                                      cs2, w2)
             ELSE Returned("policy",
                           [text |-> PolicyNotFoundText(handle), products |-> <<>>], cs, w)

\* 4. Intent: product recommendation; an empty list falls through to 5.
Recommendation ==
    /\ pc = "called"
    /\ Intent(query_lower) = "recommendation"
    /\ \E http \in Answers(ProductsAnswers) :
         LET recommendations == fetch_shopify_recommendations(http)
             cs == <<Call("fetch_shopify_recommendations", <<>>)>>
             w == [NoWorld EXCEPT !.gateway = http]
         IN  IF recommendations.raised
             THEN Raised(cs, w)
             ELSE IF recommendations.value # <<>>
             THEN \E page \in ScrapeAnswers :
                    LET product == PickProduct(recommendations.value)
                        image_url == scrape_product_image_url(product.product_url, page)
                        cs2 == Append(cs, Call("scrape_product_image_url", <<product.product_url>>))
                        w2 == [w EXCEPT !.scrape = page]
                    IN  Returned("recommendation",
                                 [text |-> RecommendationText(product.title),
                                  products |-> <<ProductCard(product, image_url)>>], cs2, w2)
             ELSE \E oracle \in OracleAnswers : GeneralConversation(cs, w, oracle)

\* 5. No keyword of any table matched.
Fallback ==
    /\ pc = "called"
    /\ Intent(query_lower) = "fallback"
    /\ \E oracle \in OracleAnswers : GeneralConversation(<<>>, NoWorld, oracle)

handle_conversation ==
    \/ Greeting
    \/ OrderTracking
    \/ Policy
    \/ Recommendation
    \/ Fallback

\* What a call leaves behind once the host has its outcome: nothing.
Forget ==
    /\ pc' = "idle"
    /\ query' = <<>>
    /\ store_name' = <<>>
    /\ response' = NoResponse
    /\ branch' = "none"
    /\ calls' = <<>>
    /\ world' = NoWorld
    /\ UNCHANGED <<SHOPIFY_STORE_URL, SHOPIFY_ADMIN_API_TOKEN>>

\* The host takes the outcome of the call.
Done ==
    /\ pc \in {"returned", "raised"}
    /\ Forget
    /\ UNCHANGED prev

Init ==
    /\ SHOPIFY_STORE_URL \in {None, StoreDomain}
    /\ SHOPIFY_ADMIN_API_TOKEN \in {None, AdminToken}
    /\ pc = "idle"
    /\ query = <<>>
    /\ store_name = <<>>
    /\ response = NoResponse
    /\ branch = "none"
    /\ calls = <<>>
    /\ world = NoWorld
    /\ prev = NoCall

Next ==
    \/ \E q \in Queries, s \in StoreNames : Receive(q, s)
    \/ handle_conversation
    \/ Done

Spec == Init /\ [][Next]_vars

-----------------------------------------------------------------------------
(* Two calls in a row: the second specification keeps the previous call.   *)

\* One query for each branch.
DetQueries ==
    { <<"H", "e", "l", "l", "o">>,
      <<"o", "r", "d", "e", "r", " ", "1", "2", "3", " ", "1", "0", "2", "3", "4">>,
      <<"f", "r", "a", "k", "t", " ", "p", "o", "l", "i", "c", "y">>,
      <<"r", "e", "c", "o", "m", "m", "e", "n", "d">>,
      <<"h", "o", "w", " ", "a", "r", "e", " ", "y", "o", "u">> }

DetStoreNames == {<<"V's Store">>}

\* The host takes the outcome of the call; the observer keeps it for comparison.
Remember ==
    /\ pc \in {"returned", "raised"}
    /\ Forget
    /\ prev' = [pc |-> pc, query |-> query, store_name |-> store_name, world |-> world,
                response |-> response]

NextDet ==
    \/ \E q \in DetQueries, s \in DetStoreNames : Receive(q, s)
    \/ handle_conversation
    \/ Remember

SpecDet == Init /\ [][NextDet]_vars

-----------------------------------------------------------------------------
(* Properties.                                                             *)

Finished == pc \in {"returned", "raised"}

OracleOps == {"answer_question_from_text", "get_conversational_response"}

Called(op) == \E i \in 1..Len(calls) : calls[i].op = op

\* C1: handle_conversation never raises: whatever the collaborators answer and
\* whatever the configuration, every call ends by returning a response.
NeverRaises == pc # "raised"

\* C2: the response comes from the branch of the first keyword table, in the
\* order greeting, order tracking, policy, recommendation, that has a keyword
\* in the query (the fallback when none has); a query with a greeting keyword
\* gets the greeting text, no products and no external call.
FirstMatchWins ==
    pc = "returned" =>
        /\ branch = Intent(query_lower)
        /\ AnyKeyword(query_lower, GREETING_KEYWORDS) =>
               /\ response = [text |-> GreetingText, products |-> <<>>]
               /\ calls = <<>>

\* A query about a policy: it has a policy keyword, no order-tracking keyword
\* and no greeting keyword besides the letters "hi", which "shipping" holds.
IsPolicyQuery(ql) ==
    /\ AnyKeyword(ql, POLICY_KEYWORDS)
    /\ ~AnyKeyword(ql, ORDER_TRACKING_KEYWORDS)
    /\ ~AnyKeyword(ql, GREETING_KEYWORDS \ {<<"h", "i">>})

MentionsShipping(ql) ==
    \/ Contains(ql, <<"s", "h", "i", "p", "p", "i", "n", "g">>)
    \/ Contains(ql, <<"f", "r", "a", "k", "t">>)

\* C3: a policy query that holds "shipping" or "frakt" has the document looked
\* up under "shipping-policy", every other policy query under "return-policy".
ShippingTopicResolved ==
    (Finished /\ IsPolicyQuery(query_lower)) =>
        /\ calls # <<>>
        /\ calls[1] = Call("get_shopify_page_by_handle",
                           <<IF MentionsShipping(query_lower)
                             THEN <<"s", "h", "i", "p", "p", "i", "n", "g", "-",
                                    "p", "o", "l", "i", "c", "y">>
                             ELSE <<"r", "e", "t", "u", "r", "n", "-",
                                    "p", "o", "l", "i", "c", "y">> >>)

\* The fixed text section 4.4 gives the recommendation composer for an empty list.
NoRecommendationsText == <<"I don't have any recommendations right now.">>

\* The product listing was asked for and came back empty.
EmptyListing ==
    /\ Intent(query_lower) = "recommendation"
    /\ Called("fetch_shopify_recommendations")
    /\ ~fetch_shopify_recommendations(world.gateway).raised
    /\ fetch_shopify_recommendations(world.gateway).value = <<>>

\* C4: a recommendation query whose product listing comes back empty is
\* answered with the fixed "no recommendations" text and an empty product list.
EmptyRecommendationsText ==
    (pc = "returned" /\ EmptyListing) =>
        response = [text |-> NoRecommendationsText, products |-> <<>>]

\* The gateway reported the order of the query as fulfilled, with a tracking URL.
FulfilledWithTracking ==
    /\ Intent(query_lower) = "order_tracking"
    /\ Called("track_order_in_shopify")
    /\ world.gateway.ok
    /\ world.gateway.json # <<>>
    /\ world.gateway.json[1].fulfillment_status = <<"fulfilled">>
    /\ world.gateway.json[1].tracking_url # None

\* C5: when the gateway reports the order as fulfilled and supplies a tracking
\* URL, the text of the response contains that URL.
TrackingUrlInText ==
    (pc = "returned" /\ FulfilledWithTracking) =>
        Contains(response.text, world.gateway.json[1].tracking_url)

\* The document lookup of a policy call found no document.
DocumentNotFound ==
    /\ Intent(query_lower) = "policy"
    /\ Called("get_shopify_page_by_handle")
    /\ \/ ~world.gateway.asked
       \/ ~world.gateway.ok
       \/ \A i \in 1..Len(world.gateway.json) :
            ~Contains(Lower(world.gateway.json[i].title), calls[1].args[1])

\* C6: when the document lookup finds no document, the call returns a text
\* that names the topic, no products, and never calls the oracle.
PolicyNotFoundNamesTopic ==
    (Finished /\ DocumentNotFound) =>
        /\ pc = "returned"
        /\ Contains(response.text, Replace(calls[1].args[1], "-", " "))
        /\ response.products = <<>>
        /\ \A op \in OracleOps : ~Called(op)

\* C6 witness: pages came back, none with the topic in its title.
PolicyNotFoundWitness ==
    /\ pc = "returned"
    /\ DocumentNotFound
    /\ world.gateway.ok
    /\ world.gateway.json # <<>>

\* s[b..e] is a maximal run of digits, at least 4 long.
IsOrderRun(s, b, e) ==
    /\ 1 <= b /\ b <= e /\ e <= Len(s)
    /\ e - b + 1 >= 4
    /\ \A k \in b..e : s[k] \in Digits
    /\ b = 1 \/ s[b - 1] \notin Digits
    /\ e = Len(s) \/ s[e + 1] \notin Digits

HasOrderRun(s) == \E b, e \in 1..Len(s) : IsOrderRun(s, b, e)

\* s[b..e] is the first such run.
IsFirstOrderRun(s, b, e) ==
    /\ IsOrderRun(s, b, e)
    /\ \A b2, e2 \in 1..Len(s) : IsOrderRun(s, b2, e2) => b <= b2

\* C7: in the order-tracking branch the order lookup is called once, with the
\* first run of 4 or more digits of the raw query and no '#'; without such a
\* run it is not called and the prompt for the number is returned.
OrderNumberIsFirstRun ==
    (Finished /\ Intent(query_lower) = "order_tracking") =>
        IF HasOrderRun(query)
        THEN /\ Len(calls) = 1
             /\ calls[1].op = "track_order_in_shopify"
             /\ \E b, e \in 1..Len(query) :
                    /\ IsFirstOrderRun(query, b, e)
                    /\ calls[1].args = <<SubSeq(query, b, e)>>
        ELSE /\ calls = <<>>
             /\ pc = "returned"
             /\ response = [text |-> OrderNumberPrompt, products |-> <<>>]

\* C7 witness: the number follows a '#' and a shorter run, and another follows.
OrderNumberWitness ==
    /\ Finished
    /\ Intent(query_lower) = "order_tracking"
    /\ Contains(query, <<"1", "2", "3", " ", "#", "4", "8", "2", "1", "3", " ">>)
    /\ calls = <<Call("track_order_in_shopify", <<<<"4", "8", "2", "1", "3">>>>)>>

\* The product listing came back with at least one product.
NonEmptyListing ==
    /\ Intent(query_lower) = "recommendation"
    /\ Called("fetch_shopify_recommendations")
    /\ world.gateway.ok
    /\ world.gateway.json # <<>>

\* C8: a non-empty product listing gives exactly one product card, built from
\* the first product of the listing.
OneCardFromFirstProduct ==
    (Finished /\ NonEmptyListing) =>
        /\ pc = "returned"
        /\ Len(response.products) = 1
        /\ response.products[1].title = world.gateway.json[1].title
        /\ response.products[1].product_url
               = RecommendationEntry(world.gateway.json[1]).product_url

\* C8 witness: two different products came back.
OneCardWitness ==
    /\ pc = "returned"
    /\ NonEmptyListing
    /\ Len(world.gateway.json) >= 2
    /\ world.gateway.json[1] # world.gateway.json[2]
    /\ Len(response.products) = 1

\* The call now finished had the inputs and the answers of the previous call.
SameAsPrevious ==
    /\ Finished
    /\ prev.pc # "idle"
    /\ prev.query = query
    /\ prev.store_name = store_name
    /\ prev.world = world

CardsComplete ==
    pc = "returned" =>
        \A i \in 1..Len(response.products) :
            /\ Truthy(response.products[i].title)
            /\ Truthy(response.products[i].product_url)
            /\ response.products[i].image_url # None

\* The "connect to human" keywords of section 4.1, which names the group and
\* not its words: the word "human" stands for them.
ConnectHumanKeywords == {<<"h", "u", "m", "a", "n">>}

\* C11: a query with a "connect to human" keyword and no keyword of the four
\* groups before it is answered by the connect-to-human branch, with no
\* products and without any gateway or oracle call.
ConnectHumanIsTerminal ==
    (/\ Finished
     /\ AnyKeyword(query_lower, ConnectHumanKeywords)
     /\ Intent(query_lower) = "fallback") =>
        /\ pc = "returned"
        /\ branch = "connect_human"
        /\ response.products = <<>>
        /\ calls = <<>>

\* The number of products the gateway returned during the call.
ProductsReturned ==
    IF Called("fetch_shopify_recommendations") /\ world.gateway.ok
    THEN Len(world.gateway.json)
    ELSE 0

\* C12: in every response the text is a non-empty string, there are at most as
\* many products as the gateway returned, and none outside the recommendation
\* branch.
ResponseWellFormed ==
    pc = "returned" =>
        /\ response.text # None
        /\ response.text # <<>>
        /\ Len(response.products) <= ProductsReturned
        /\ branch # "recommendation" => response.products = <<>>

\* C12 witness: the policy page found has nothing but markup in it, so the
\* oracle is asked about an empty text.
ResponseWellFormedWitness ==
    /\ pc = "returned"
    /\ branch = "policy"
    /\ Called("answer_question_from_text")
    /\ calls[2].args[1] = <<>>

\* The document lookup of a policy call found a page for the topic.
DocumentFound ==
    /\ Intent(query_lower) = "policy"
    /\ Called("get_shopify_page_by_handle")
    /\ world.gateway.ok
    /\ \E i \in 1..Len(world.gateway.json) :
         Contains(Lower(world.gateway.json[i].title), calls[1].args[1])

\* The body of the page found: that of the first page with the topic in its title.
FoundBody ==
    LET hits == {i \in 1..Len(world.gateway.json) :
                   Contains(Lower(world.gateway.json[i].title), calls[1].args[1])}
    IN  world.gateway.json[CHOOSE i \in hits : \A j \in hits : i <= j].body_html

\* C13: whenever the lookup finds a document, whatever its body, the oracle is
\* called once with the body stripped of markup and the query, and its answer
\* is the text returned; the "couldn't find" text is for no document only.
FoundDocumentIsAnswered ==
    (Finished /\ DocumentFound) =>
        /\ Len(calls) = 2
        /\ calls[2] = Call("answer_question_from_text", <<clean_html(FoundBody), query>>)
        /\ pc = "returned" =>
               /\ response.text
                      = answer_question_from_text(clean_html(FoundBody), query, "ok").value
               /\ response.text # PolicyNotFoundText(calls[1].args[1])

GatewayOps == {"track_order_in_shopify", "get_shopify_page_by_handle",
               "fetch_shopify_recommendations"}

\* C14: a call issues its external operations one after the other, each at
\* most once and at most two in all, a gateway operation before an oracle call
\* or an image scrape; the greeting branch and the order-tracking branch
\* without an order number issue none.
CallsAreFewAndOrdered ==
    Finished =>
        /\ Len(calls) <= 2
        /\ \A i, j \in 1..Len(calls) : calls[i].op = calls[j].op => i = j
        /\ \A i, j \in 1..Len(calls) :
             (calls[i].op \in GatewayOps /\ calls[j].op \notin GatewayOps) => i < j
        /\ Intent(query_lower) = "greeting" => calls = <<>>
        /\ (Intent(query_lower) = "order_tracking" /\ ~HasOrderRun(query)) => calls = <<>>

\* C14 witness: the product listing failed and the oracle was asked after it,
\* and failed too.
CallsWitness ==
    /\ pc = "returned"
    /\ Len(calls) = 2
    /\ calls[1].op = "fetch_shopify_recommendations"
    /\ calls[2].op = "get_conversational_response"
    /\ ~world.gateway.ok
    /\ world.oracle = "fail"

====
